---- MODULE Spec2Model ----
(***************************************************************************)
(* Model of package errbuf (src/errbuf.go): BufferedError, a slice of      *)
(* errors behind a sync.RWMutex.  Goroutines call its methods; a method    *)
(* call is a frame on the goroutine's stack and advances one shared-memory *)
(* access (or one lock operation) at a time.  Slices are modelled as Go    *)
(* has them: a header (ptr, len, cap) pointing into a heap of backing      *)
(* arrays, so that aliasing and reallocation are visible.                  *)
(***************************************************************************)
EXTENDS Integers, Sequences, FiniteSets, TLC

VARIABLES
    heap,       \* backing arrays: heap[p] is the array at address p
    errors,     \* errors[b]: the slice header of buffer b's field `errors`
    writer,     \* writer[b]: goroutine inside Lock() of b (waiting or holding)
    readers,    \* readers[b][t]: read locks goroutine t holds on b
    pool,       \* stringsBuildersPool: contents of the pooled builders
    stack,      \* stack[t]: call frames of goroutine t, innermost last
    unwrapped,  \* unwrapped[t]: the slice the last Unwrap() returned to t
    status,     \* "run", or how the process died: "panic" (nil dereference),
                \* "overflow" (stack overflow), or the value of an explicit panic
    nops,       \* calls made so far, by all goroutines together
    seed,       \* seed[b]: how b was constructed: "New" or NewFromError's e
    logical,    \* history: b's contents by the Add/Clear calls linearized
    cleared     \* history: the buffers Clear was invoked on

vars == <<heap, errors, writer, readers, pool, stack, unwrapped, status,
          nops, seed, logical, cleared>>

(***************************************************************************)
(* Bounds                                                                  *)
(***************************************************************************)
MaxOps == 3          \* calls made by all goroutines together (Spec)
MaxGrow == 3         \* largest n passed to Grow
AddsPerThread == 3   \* M of the K x M scenario (SpecAdd)
MaxDepth == 3        \* frames a goroutine stack holds before it overflows (SpecNested)

Threads == {"t1", "t2"}
Buffers == {"b1", "b2"}
\* The leaf errors goroutine t adds in the K x M scenario, in order.
OwnLeaves(t) == IF t = "t1" THEN <<"a", "b", "c", "d">> ELSE <<"e", "f", "g", "h">>
Leaves == {"a", "b", "c", "d", "e", "f", "g", "h"}
NilErr == "nil"
\* An error value is nil, a leaf error, or a *BufferedError (named by the buffer).
Values == {NilErr} \cup Leaves \cup Buffers
NoThread == "none"

\* err.Error() of a leaf error: its text, as a sequence of characters.
LeafString(v) == <<v>>

singleLineSep == <<";", " ">>
multilineSep == <<"\n">>

(***************************************************************************)
(* Slices and the heap of backing arrays                                   *)
(***************************************************************************)
NilSlice == [ptr |-> 0, len |-> 0, cap |-> 0]

\* The elements a slice header s denotes in heap h.
Elems(h, s) == [i \in 1..s.len |-> h[s.ptr][i]]

\* The contents stored in buffer b.
Stored(b) == Elems(heap, errors[b])

ZeroArray(n) == [i \in 1..n |-> NilErr]

\* The lowest free address of h (a collected array leaves <<>> behind).
FreePtr(h) ==
    IF \E p \in 1..Len(h) : h[p] = <<>>
    THEN CHOOSE p \in 1..Len(h) : h[p] = <<>> /\ \A q \in 1..(p - 1) : h[q] # <<>>
    ELSE Len(h) + 1

\* Heap h with a new array a at address FreePtr(h).
Alloc(h, a) ==
    IF FreePtr(h) > Len(h) THEN Append(h, a) ELSE [h EXCEPT ![FreePtr(h)] = a]

\* The addresses the slice headers of the program refer to.
LivePtrs(errs, stk, unw) ==
    {errs[b].ptr : b \in Buffers} \cup {unw[t].ptr : t \in Threads}
    \cup UNION {UNION {{stk[t][k].s.ptr, stk[t][k].d.ptr} : k \in 1..Len(stk[t])} :
                t \in Threads}

\* Garbage collection: arrays no header refers to are freed.
Sweep(h, live) ==
    LET used == {p \in 1..Len(h) : p \in live}
        top == IF used = {} THEN 0 ELSE CHOOSE p \in used : \A q \in used : q <= p
    IN [p \in 1..top |-> IF p \in live THEN h[p] ELSE <<>>]

\* make([]error, len, cap): a fresh zeroed array; result <<heap, slice>>.
Make(h, len, cap) ==
    <<Alloc(h, ZeroArray(cap)), [ptr |-> FreePtr(h), len |-> len, cap |-> cap]>>

\* runtime growslice for one more element: double (1 from empty).
GrowCap(cap) == IF cap = 0 THEN 1 ELSE 2 * cap

\* append(s, e): in place when capacity allows, else into a new array.
AppendSlice(h, s, e) ==
    IF s.len < s.cap
    THEN <<[h EXCEPT ![s.ptr][s.len + 1] = e], [s EXCEPT !.len = s.len + 1]>>
    ELSE LET c == GrowCap(s.cap)
             a == [i \in 1..c |-> IF i <= s.len THEN h[s.ptr][i]
                                  ELSE IF i = s.len + 1 THEN e ELSE NilErr]
         IN <<Alloc(h, a), [ptr |-> FreePtr(h), len |-> s.len + 1, cap |-> c]>>

CopyAlias(h, s) == <<h, s>>

\* append(([]error)(nil), s...): nil for an empty s, else a fresh array.
CopySlice(h, s) ==
    IF s.len = 0 THEN <<h, NilSlice>>
    ELSE <<Alloc(h, Elems(h, s)), [ptr |-> FreePtr(h), len |-> s.len, cap |-> s.len]>>

(***************************************************************************)
(* Frames                                                                  *)
(***************************************************************************)
\* One call frame: method op on receiver b at position pc, with its locals:
\* e (an error, or Format's verb), n (an int), i (loop index, from 1),
\* s and d (slices), out (text written so far).
Frame(op, b, pc) ==
    [op |-> op, b |-> b, pc |-> pc, e |-> NilErr, n |-> 0, i |-> 1,
     s |-> NilSlice, d |-> NilSlice, out |-> <<>>]

Idle(t) == stack[t] = <<>>
Depth(t) == Len(stack[t])
Top(t) == stack[t][Len(stack[t])]
At(t, op, pc) == ~Idle(t) /\ Top(t).op = op /\ Top(t).pc = pc
SetTop(t, f) == [stack EXCEPT ![t] = [@ EXCEPT ![Len(@)] = f]]
Running == status = "run"

\* The heap after this step: h, less the arrays the step left unreferenced.
GC(h) == heap' = Sweep(h, LivePtrs(errors', stack', unwrapped'))

(***************************************************************************)
(* sync.RWMutex                                                            *)
(***************************************************************************)
NoReaders(b) == \A t \in Threads : readers[b][t] = 0

\* RLock() proceeds unless a writer holds or waits for the lock.
CanRLock(b) == writer[b] = NoThread

CanLockAlways(b) == TRUE

\* Lock() excludes other writers, then waits for the readers to leave.
CanLock(b) == writer[b] = NoThread

RLocked(t, b) == [readers EXCEPT ![b][t] = @ + 1]
RUnlocked(t, b) == [readers EXCEPT ![b][t] = @ - 1]

(***************************************************************************)
(* Construction                                                            *)
(***************************************************************************)
\* New(): errors is a nil slice.
New == NilSlice

\* NewFromError(e): errors is []error{e}, whatever e is.
NewFromError(h, e) ==
    <<Alloc(h, <<e>>), [ptr |-> FreePtr(h), len |-> 1, cap |-> 1]>>

\* The heap and headers after constructing b1 with seed x and b2 with seed y.
Construct(x, y) ==
    LET r1 == IF x = "New" THEN <<(<<>>), New>> ELSE NewFromError(<<>>, x)
        r2 == IF y = "New" THEN <<r1[1], New>> ELSE NewFromError(r1[1], y)
    IN [heap |-> r2[1],
        errors |-> [b \in Buffers |-> IF b = "b1" THEN r1[2] ELSE r2[2]]]

InitWith(x, y) ==
    /\ heap = Construct(x, y).heap
    /\ errors = Construct(x, y).errors
    /\ writer = [b \in Buffers |-> NoThread]
    /\ readers = [b \in Buffers |-> [t \in Threads |-> 0]]
    /\ pool = {}
    /\ stack = [t \in Threads |-> <<>>]
    /\ unwrapped = [t \in Threads |-> NilSlice]
    /\ status = "run"
    /\ nops = 0
    /\ seed = [b \in Buffers |-> IF b = "b1" THEN x ELSE y]
    /\ logical = [b \in Buffers |-> Elems(Construct(x, y).heap, Construct(x, y).errors[b])]
    /\ cleared = {}

\* The constructor calls of the runs explored: <<seed of b1, seed of b2>>.
SeedMenu == {<<"New", "New">>, <<NilErr, "New">>, <<"b2", "d">>}

Init == \E m \in SeedMenu : InitWith(m[1], m[2])

(***************************************************************************)
(* Calls and returns                                                       *)
(***************************************************************************)
\* Goroutine t, in caller code, invokes a method: a new root frame f.
Invoke(t, f) ==
    /\ Running
    /\ Idle(t)
    /\ stack' = [stack EXCEPT ![t] = <<f>>]
    /\ nops' = nops + 1

\* The call starts with b.Lock(): take the writer side (no other writer may
\* hold or wait for it); enter at once when no reader is inside.
InvokeLock(t, f) ==
    /\ CanLock(f.b)
    /\ Invoke(t, [f EXCEPT !.pc = IF NoReaders(f.b) THEN "body" ELSE "wait"])
    /\ writer' = [writer EXCEPT ![f.b] = t]
    /\ UNCHANGED readers

\* The call starts with b.RLock().
InvokeRLock(t, f) ==
    /\ CanRLock(f.b)
    /\ Invoke(t, [f EXCEPT !.pc = "body"])
    /\ readers' = RLocked(t, f.b)
    /\ UNCHANGED writer

Min(x, y) == IF x <= y THEN x ELSE y

\* The caller's frame f after the call it waits on returned text res.
Continue(f, res) ==
    CASE f.op = "Error" /\ f.pc = "one" -> [f EXCEPT !.out = res, !.pc = "runlock"]
      [] f.op = "Error" /\ f.pc = "size" ->
            [f EXCEPT !.n = @ + Len(res), !.i = @ + 1,
                      !.pc = IF f.i + 1 > f.s.len THEN "get" ELSE "size"]
      [] f.op = "Error" /\ f.pc = "write" -> [f EXCEPT !.out = res, !.pc = "put"]
      [] f.op = "writeSingleLine" -> [f EXCEPT !.out = @ \o res, !.i = @ + 1]
      [] f.op = "writeMultiLine" -> [f EXCEPT !.out = res, !.i = @ + 1]
      [] f.op = "Format" /\ f.pc = "verbose" -> [f EXCEPT !.out = res, !.i = @ + 1]
      [] f.op = "Format" /\ f.pc = "wait" -> [f EXCEPT !.out = res, !.pc = "runlock"]
      [] OTHER -> f

\* The stack of t after its innermost call returned res to its caller.
ReturnTo(t, res) ==
    IF Depth(t) = 1 THEN [stack EXCEPT ![t] = <<>>]
    ELSE [stack EXCEPT ![t] =
            Append(SubSeq(@, 1, Len(@) - 2), Continue(@[Len(@) - 1], res))]

(***************************************************************************)
(* Lock() and RLock() after the call                                       *)
(***************************************************************************)
LockOps == {"Add", "Clear", "Err"}
RLockOps == {"Error", "Format"}

\* b.Lock(), second half: the last reader left.
LockWait(t) ==
    /\ Running /\ ~Idle(t)
    /\ Top(t).op \in LockOps /\ Top(t).pc = "wait"
    /\ NoReaders(Top(t).b)
    /\ stack' = SetTop(t, [Top(t) EXCEPT !.pc = "body"])
    /\ UNCHANGED <<heap, errors, writer, readers, pool, unwrapped, status, nops,
                   seed, logical, cleared>>

\* b.RLock() of a call made from inside a rendering (Error() of an element
\* that is a buffer, Format of one under %+v).
RLock(t) ==
    /\ Running /\ ~Idle(t)
    /\ Top(t).op \in RLockOps /\ Top(t).pc = "rlock"
    /\ CanRLock(Top(t).b)
    /\ readers' = RLocked(t, Top(t).b)
    /\ stack' = SetTop(t, [Top(t) EXCEPT !.pc = "body"])
    /\ UNCHANGED <<heap, errors, writer, pool, unwrapped, status, nops, seed,
                   logical, cleared>>

(***************************************************************************)
(* Add                                                                     *)
(***************************************************************************)
AddStartUnchecked(e) == "lock"

\* if err == nil { return }
AddStart(e) == IF e = NilErr THEN "ret" ELSE "lock"

AddCall(t, b, e) ==
    /\ IF AddStart(e) = "ret"
       THEN Invoke(t, [Frame("Add", b, "ret") EXCEPT !.e = e]) /\ UNCHANGED <<writer, readers>>
       ELSE InvokeLock(t, [Frame("Add", b, "lock") EXCEPT !.e = e])
    /\ UNCHANGED <<heap, errors, pool, unwrapped, status, seed, logical, cleared>>

\* Add(nil) returns before touching the buffer.
AddNil(t) ==
    /\ Running /\ At(t, "Add", "ret")
    /\ stack' = ReturnTo(t, <<>>)
    /\ UNCHANGED <<heap, errors, writer, readers, pool, unwrapped, status, nops,
                   seed, logical, cleared>>

\* append(b.errors, err): the operand b.errors is read ...
AddRead(t) ==
    /\ Running /\ At(t, "Add", "body")
    /\ stack' = SetTop(t, [Top(t) EXCEPT !.s = errors[Top(t).b], !.pc = "write"])
    /\ UNCHANGED <<heap, errors, writer, readers, pool, unwrapped, status, nops,
                   seed, logical, cleared>>

\* ... and the result is stored in b.errors; b.Unlock(); return.
AddWrite(t) ==
    /\ Running /\ At(t, "Add", "write")
    /\ errors' = [errors EXCEPT ![Top(t).b] = AppendSlice(heap, Top(t).s, Top(t).e)[2]]
    /\ logical' = [logical EXCEPT ![Top(t).b] = Append(@, Top(t).e)]
    /\ writer' = [writer EXCEPT ![Top(t).b] = NoThread]
    /\ stack' = ReturnTo(t, <<>>)
    /\ UNCHANGED <<readers, pool, unwrapped, status, nops, seed, cleared>>
    /\ GC(AppendSlice(heap, Top(t).s, Top(t).e)[1])

(***************************************************************************)
(* Clear                                                                   *)
(***************************************************************************)
ClearCall(t, b) ==
    /\ InvokeLock(t, Frame("Clear", b, "lock"))
    /\ cleared' = cleared \cup {b}
    /\ UNCHANGED <<heap, errors, pool, unwrapped, status, seed, logical>>

ClearKeepsSlice(s) == s

\* ([]error)(nil): the value Clear assigns to b.errors, whatever it was.
ClearedSlice(s) == NilSlice

\* b.errors = nil; b.Unlock(); return.
ClearWrite(t) ==
    /\ Running /\ At(t, "Clear", "body")
    /\ errors' = [errors EXCEPT ![Top(t).b] = ClearedSlice(@)]
    /\ logical' = [logical EXCEPT ![Top(t).b] = <<>>]
    /\ writer' = [writer EXCEPT ![Top(t).b] = NoThread]
    /\ stack' = ReturnTo(t, <<>>)
    /\ UNCHANGED <<readers, pool, unwrapped, status, nops, seed, cleared>>
    /\ GC(heap)

(***************************************************************************)
(* Err                                                                     *)
(***************************************************************************)
ErrValueAlways(s, b) == b

ErrValueOther(s, b) == IF s.len = 0 THEN NilErr ELSE CHOOSE c \in Buffers : c # b

\* if len(b.errors) == 0 { return nil }; return b
ErrValue(s, b) == IF s.len = 0 THEN NilErr ELSE b

ErrCall(t, b) ==
    /\ InvokeLock(t, Frame("Err", b, "lock"))
    /\ UNCHANGED <<heap, errors, pool, unwrapped, status, seed, logical, cleared>>

\* The return value is computed; the deferred Unlock is still to run.
ErrCheck(t) ==
    /\ Running /\ At(t, "Err", "body")
    /\ stack' = SetTop(t, [Top(t) EXCEPT !.e = ErrValue(errors[Top(t).b], Top(t).b),
                                         !.pc = "unlock"])
    /\ UNCHANGED <<heap, errors, writer, readers, pool, unwrapped, status, nops,
                   seed, logical, cleared>>

\* defer b.Unlock(); return.
ErrReturn(t) ==
    /\ Running /\ At(t, "Err", "unlock")
    /\ writer' = [writer EXCEPT ![Top(t).b] = NoThread]
    /\ stack' = ReturnTo(t, <<>>)
    /\ UNCHANGED <<heap, errors, readers, pool, unwrapped, status, nops, seed,
                   logical, cleared>>

(***************************************************************************)
(* Grow                                                                    *)
(***************************************************************************)
GrowCall(t, b, n) ==
    /\ InvokeRLock(t, [Frame("Grow", b, "rlock") EXCEPT !.n = n])
    /\ UNCHANGED <<heap, errors, pool, unwrapped, status, seed, logical, cleared>>

\* if cap(b.errors) < n
GrowCheck(t) ==
    /\ Running /\ At(t, "Grow", "body")
    /\ stack' = SetTop(t, [Top(t) EXCEPT !.pc =
                    IF errors[Top(t).b].cap < Top(t).n THEN "old" ELSE "runlock"])
    /\ UNCHANGED <<heap, errors, writer, readers, pool, unwrapped, status, nops,
                   seed, logical, cleared>>

\* old := b.errors
GrowOld(t) ==
    /\ Running /\ At(t, "Grow", "old")
    /\ stack' = SetTop(t, [Top(t) EXCEPT !.s = errors[Top(t).b], !.pc = "make"])
    /\ UNCHANGED <<heap, errors, writer, readers, pool, unwrapped, status, nops,
                   seed, logical, cleared>>

\* b.errors = make([]error, len(old), n)
GrowMake(t) ==
    /\ Running /\ At(t, "Grow", "make")
    /\ errors' = [errors EXCEPT ![Top(t).b] = Make(heap, Top(t).s.len, Top(t).n)[2]]
    /\ stack' = SetTop(t, [Top(t) EXCEPT !.pc = "copy", !.i = 1])
    /\ UNCHANGED <<writer, readers, pool, unwrapped, status, nops, seed, logical,
                   cleared>>
    /\ GC(Make(heap, Top(t).s.len, Top(t).n)[1])

\* copy(b.errors, old): the destination header is read once, then the
\* elements are moved one after the other.
GrowCopy(t) ==
    /\ Running /\ At(t, "Grow", "copy")
    /\ LET f == Top(t)
           d == IF f.i = 1 THEN errors[f.b] ELSE f.d
           m == Min(d.len, f.s.len)
       IN IF f.i > m
          THEN /\ heap' = heap
               /\ stack' = SetTop(t, [f EXCEPT !.d = d, !.pc = "runlock"])
          ELSE /\ heap' = [heap EXCEPT ![d.ptr][f.i] = heap[f.s.ptr][f.i]]
               /\ stack' = SetTop(t, [f EXCEPT !.d = d, !.i = f.i + 1,
                                 !.pc = IF f.i + 1 > m THEN "runlock" ELSE "copy"])
    /\ UNCHANGED <<errors, writer, readers, pool, unwrapped, status, nops, seed,
                   logical, cleared>>

\* b.RUnlock(); return.
GrowReturn(t) ==
    /\ Running /\ At(t, "Grow", "runlock")
    /\ readers' = RUnlocked(t, Top(t).b)
    /\ stack' = ReturnTo(t, <<>>)
    /\ UNCHANGED <<errors, writer, pool, unwrapped, status, nops, seed, logical,
                   cleared>>
    /\ GC(heap)

(***************************************************************************)
(* Unwrap                                                                  *)
(***************************************************************************)
UnwrapCall(t, b) ==
    /\ InvokeRLock(t, Frame("Unwrap", b, "rlock"))
    /\ UNCHANGED <<heap, errors, pool, unwrapped, status, seed, logical, cleared>>

\* The return value append(([]error)(nil), b.errors...) is computed; the
\* deferred RUnlock is still to run.
UnwrapCopy(t) ==
    /\ Running /\ At(t, "Unwrap", "body")
    /\ stack' = SetTop(t, [Top(t) EXCEPT !.s = CopySlice(heap, errors[Top(t).b])[2],
                                         !.pc = "runlock"])
    /\ heap' = CopySlice(heap, errors[Top(t).b])[1]
    /\ UNCHANGED <<errors, writer, readers, pool, unwrapped, status, nops, seed,
                   logical, cleared>>

\* defer b.RUnlock(); return: the caller now holds the returned slice.
UnwrapReturn(t) ==
    /\ Running /\ At(t, "Unwrap", "runlock")
    /\ readers' = RUnlocked(t, Top(t).b)
    /\ unwrapped' = [unwrapped EXCEPT ![t] = Top(t).s]
    /\ stack' = ReturnTo(t, <<>>)
    /\ UNCHANGED <<errors, writer, pool, status, nops, seed, logical, cleared>>
    /\ GC(heap)

(***************************************************************************)
(* The caller's own use of an unwrapped slice                              *)
(***************************************************************************)
CallerValue == "b"

\* errs[i] = x on the slice Unwrap returned.
CallerOverwrite(t, i) ==
    /\ Running /\ Idle(t)
    /\ i \in 1..unwrapped[t].len
    /\ heap' = [heap EXCEPT ![unwrapped[t].ptr][i] = CallerValue]
    /\ nops' = nops + 1
    /\ UNCHANGED <<errors, writer, readers, pool, stack, unwrapped, status, seed,
                   logical, cleared>>

\* errs = append(errs, x) on the slice Unwrap returned.
CallerAppend(t) ==
    /\ Running /\ Idle(t)
    /\ unwrapped[t].len > 0
    /\ unwrapped' = [unwrapped EXCEPT ![t] = AppendSlice(heap, unwrapped[t], CallerValue)[2]]
    /\ nops' = nops + 1
    /\ UNCHANGED <<errors, writer, readers, pool, stack, status, seed, logical,
                   cleared>>
    /\ GC(AppendSlice(heap, unwrapped[t], CallerValue)[1])

(***************************************************************************)
(* Rendering: Error, writeSingleLine, writeMultiLine, Format               *)
(***************************************************************************)
\* The header a range loop (or an index expression) of frame f works on:
\* b.errors is read when the loop starts and kept for the later iterations.
Hdr(f) == IF f.i = 1 THEN errors[f.b] ELSE f.s

\* Frame f is about to call Error() on its current element, which is nil.
NilCall(f) ==
    /\ \/ f.op = "Error" /\ f.pc \in {"one", "size"}
       \/ f.op \in {"writeSingleLine", "writeMultiLine"}
    /\ f.i <= Hdr(f).len
    /\ heap[Hdr(f).ptr][f.i] = NilErr

\* The stack of t once frame f (its innermost) has called v.Error():
\* a leaf answers at once, a *BufferedError runs its own Error().
CallError(t, f, v) ==
    IF v \in Buffers
    THEN [stack EXCEPT ![t] = Append(SubSeq(@, 1, Len(@) - 1),  f) \o
                                 <<Frame("Error", v, "rlock")>>]
    ELSE SetTop(t, Continue(f, LeafString(v)))

\* builder.Reset(): the builder is empty whatever it held.
BuilderReset(x) == <<>>

NoSpaces(n) == <<>>

\* spaces := make([]byte, ident), filled with ' '
Spaces(n) == [k \in 1..n |-> " "]

ErrorCall(t, b) ==
    /\ InvokeRLock(t, Frame("Error", b, "rlock"))
    /\ UNCHANGED <<heap, errors, pool, unwrapped, status, seed, logical, cleared>>

\* switch len(b.errors)
ErrorSwitch(t) ==
    /\ Running /\ At(t, "Error", "body")
    /\ LET f == Top(t)
           len == errors[f.b].len
       IN stack' = SetTop(t,
            IF len = 0 THEN [f EXCEPT !.pc = "runlock"]
            ELSE IF len = 1 THEN [f EXCEPT !.pc = "one"]
            ELSE [f EXCEPT !.pc = "size", !.i = 1,
                           !.n = (len - 1) * Len(singleLineSep)])
    /\ UNCHANGED <<heap, errors, writer, readers, pool, unwrapped, status, nops,
                   seed, logical, cleared>>

\* b.errors[0].Error(), or one round of: size += len(err.Error())
ErrorElem(t) ==
    /\ Running /\ ~Idle(t)
    /\ Top(t).op = "Error" /\ Top(t).pc \in {"one", "size"}
    /\ ~NilCall(Top(t))
    /\ LET f == [Top(t) EXCEPT !.s = Hdr(Top(t))]
       IN stack' = CallError(t, f, heap[f.s.ptr][f.i])
    /\ UNCHANGED <<heap, errors, writer, readers, pool, unwrapped, status, nops,
                   seed, logical, cleared>>

\* builder := stringsBuildersPool.Get(); builder.Reset(); builder.Grow(size);
\* b.writeSingleLine(builder)
ErrorGet(t) ==
    /\ Running /\ At(t, "Error", "get")
    /\ \E x \in pool \cup {<<>>} :
        /\ pool' = pool \ {x}
        /\ stack' = [stack EXCEPT ![t] =
                Append(SubSeq(@, 1, Len(@) - 1), [Top(t) EXCEPT !.pc = "write"]) \o
                <<[Frame("writeSingleLine", Top(t).b, "loop") EXCEPT
                        !.out = BuilderReset(x)]>>]
    /\ UNCHANGED <<heap, errors, writer, readers, unwrapped, status, nops, seed,
                   logical, cleared>>

\* (result := builder.String(); stringsBuildersPool.Put(builder);)
\* defer b.RUnlock(); return.
ErrorReturn(t) ==
    /\ Running /\ ~Idle(t)
    /\ Top(t).op = "Error" /\ Top(t).pc \in {"runlock", "put"}
    /\ pool' = IF Top(t).pc = "put" THEN pool \cup {Top(t).out} ELSE pool
    /\ readers' = RUnlocked(t, Top(t).b)
    /\ stack' = ReturnTo(t, Top(t).out)
    /\ UNCHANGED <<errors, writer, unwrapped, status, nops, seed, logical,
                   cleared>>
    /\ GC(heap)

SepBefore(f) == IF f.i >= 1 THEN singleLineSep ELSE <<>>

\* if i > 0 { w.Write(singleLineSep) }
SepAfterFirst(f) == IF f.i > 1 THEN singleLineSep ELSE <<>>

\* One round of writeSingleLine's loop.
WriteSingleLineElem(t) ==
    /\ Running /\ At(t, "writeSingleLine", "loop")
    /\ Top(t).i <= Hdr(Top(t)).len
    /\ ~NilCall(Top(t))
    /\ LET f == [Top(t) EXCEPT !.s = Hdr(Top(t)), !.out = @ \o SepAfterFirst(Top(t))]
       IN stack' = CallError(t, f, heap[f.s.ptr][f.i])
    /\ UNCHANGED <<heap, errors, writer, readers, pool, unwrapped, status, nops,
                   seed, logical, cleared>>

\* The loop is over: return to Error or Format.
WriteSingleLineReturn(t) ==
    /\ Running /\ At(t, "writeSingleLine", "loop")
    /\ Top(t).i > Hdr(Top(t)).len
    /\ stack' = ReturnTo(t, Top(t).out)
    /\ UNCHANGED <<errors, writer, readers, pool, unwrapped, status, nops, seed,
                   logical, cleared>>
    /\ GC(heap)

\* One round of writeMultiLine's loop; n is ident.  A nested buffer is
\* rendered by its own writeMultiLine, entered without taking its lock.
WriteMultiLineElem(t) ==
    /\ Running /\ At(t, "writeMultiLine", "loop")
    /\ Top(t).i <= Hdr(Top(t)).len
    /\ ~NilCall(Top(t))
    /\ LET f == [Top(t) EXCEPT !.s = Hdr(Top(t)),
                    !.out = @ \o (IF Top(t).i > 1 THEN multilineSep ELSE <<>>)]
           v == heap[f.s.ptr][f.i]
       IN stack' =
            IF v \in Buffers
            THEN [stack EXCEPT ![t] = Append(SubSeq(@, 1, Len(@) - 1), f) \o
                    <<[Frame("writeMultiLine", v, "loop") EXCEPT
                            !.n = f.n + 1, !.out = f.out]>>]
            ELSE SetTop(t, [f EXCEPT !.out = @ \o Spaces(f.n) \o LeafString(v),
                                     !.i = @ + 1])
    /\ UNCHANGED <<heap, errors, writer, readers, pool, unwrapped, status, nops,
                   seed, logical, cleared>>

WriteMultiLineReturn(t) ==
    /\ Running /\ At(t, "writeMultiLine", "loop")
    /\ Top(t).i > Hdr(Top(t)).len
    /\ stack' = ReturnTo(t, Top(t).out)
    /\ UNCHANGED <<errors, writer, readers, pool, unwrapped, status, nops, seed,
                   logical, cleared>>
    /\ GC(heap)

Verbs == {"v", "+v", "s"}

FormatWriterMultiLine(verb) == "writeMultiLine"

\* case 'v' (no + flag): b.writeMultiLine(f, 0); default: b.writeSingleLine(f)
FormatWriter(verb) == IF verb = "v" THEN "writeMultiLine" ELSE "writeSingleLine"

FormatCall(t, b, verb) ==
    /\ InvokeRLock(t, [Frame("Format", b, "rlock") EXCEPT !.e = verb])
    /\ UNCHANGED <<heap, errors, pool, unwrapped, status, seed, logical, cleared>>

\* switch verb: %+v dumps b.errors through fmt, %v renders multi-line,
\* any other verb renders single-line.
FormatBody(t) ==
    /\ Running /\ At(t, "Format", "body")
    /\ LET f == Top(t)
           sub(op) == [stack EXCEPT ![t] =
                Append(SubSeq(@, 1, Len(@) - 1), [f EXCEPT !.pc = "wait"]) \o
                <<[Frame(op, f.b, "loop") EXCEPT !.out = f.out]>>]
       IN stack' =
            IF f.e = "+v"
            THEN SetTop(t, [f EXCEPT !.pc = "verbose", !.i = 1, !.s = errors[f.b],
                                     !.out = @ \o <<"BufferedError{errors:", "[">>])
            ELSE sub(FormatWriter(f.e))
    /\ UNCHANGED <<heap, errors, writer, readers, pool, unwrapped, status, nops,
                   seed, logical, cleared>>

\* fmt prints one element of the slice under %+v: <nil>, a leaf's Error(),
\* or a nested buffer through its own Format.
FormatVerboseElem(t) ==
    /\ Running /\ At(t, "Format", "verbose")
    /\ Top(t).i <= Top(t).s.len
    /\ LET f == [Top(t) EXCEPT !.out = @ \o (IF Top(t).i > 1 THEN <<" ">> ELSE <<>>)]
           v == heap[f.s.ptr][f.i]
       IN stack' =
            IF v \in Buffers
            THEN [stack EXCEPT ![t] = Append(SubSeq(@, 1, Len(@) - 1), f) \o
                    <<[Frame("Format", v, "rlock") EXCEPT !.e = "+v", !.out = f.out]>>]
            ELSE SetTop(t, [f EXCEPT !.i = @ + 1,
                    !.out = @ \o (IF v = NilErr THEN <<"<nil>">> ELSE LeafString(v))])
    /\ UNCHANGED <<heap, errors, writer, readers, pool, unwrapped, status, nops,
                   seed, logical, cleared>>

FormatVerboseEnd(t) ==
    /\ Running /\ At(t, "Format", "verbose")
    /\ Top(t).i > Top(t).s.len
    /\ stack' = SetTop(t, [Top(t) EXCEPT !.out = @ \o <<"]", "}">>, !.pc = "runlock"])
    /\ UNCHANGED <<heap, errors, writer, readers, pool, unwrapped, status, nops,
                   seed, logical, cleared>>

\* defer b.RUnlock(); return.
FormatReturn(t) ==
    /\ Running /\ At(t, "Format", "runlock")
    /\ readers' = RUnlocked(t, Top(t).b)
    /\ stack' = ReturnTo(t, Top(t).out)
    /\ UNCHANGED <<errors, writer, pool, unwrapped, status, nops, seed, logical,
                   cleared>>
    /\ GC(heap)

\* Error() is called on a nil error: the goroutine panics, the deferred
\* RUnlocks of its frames run, and the process dies.
Panic(t) ==
    /\ Running /\ ~Idle(t)
    /\ NilCall(Top(t))
    /\ status' = "panic"
    /\ readers' = [b \in Buffers |-> [readers[b] EXCEPT ![t] = 0]]
    /\ stack' = [stack EXCEPT ![t] = <<>>]
    /\ UNCHANGED <<errors, writer, pool, unwrapped, nops, seed, logical, cleared>>
    /\ GC(heap)

(***************************************************************************)
(* NewBufferFromWarning                                                    *)
(***************************************************************************)
\* The value NewBufferFromWarning panics with.
WarningPanic == "BufferedError does not contain warnings buffer"

NewBufferFromWarningLikeError(e) == IF e = NilErr THEN WarningPanic ELSE "run"

\* The process after NewBufferFromWarning(e): panic(...), whatever e is.
NewBufferFromWarning(e) == WarningPanic

\* The call never returns: its frame stays, the process is dead.
NewBufferFromWarningCall(t, e) ==
    /\ Invoke(t, [Frame("NewBufferFromWarning", "none", "panic") EXCEPT !.e = e])
    /\ status' = NewBufferFromWarning(e)
    /\ UNCHANGED <<heap, errors, writer, readers, pool, unwrapped, seed, logical,
                   cleared>>

WarningMenu == {NilErr, "a"}

(***************************************************************************)
(* Specification                                                           *)
(***************************************************************************)
Step(t) ==
    \/ LockWait(t) \/ RLock(t)
    \/ AddNil(t) \/ AddRead(t) \/ AddWrite(t)
    \/ ClearWrite(t)
    \/ ErrCheck(t) \/ ErrReturn(t)
    \/ GrowCheck(t) \/ GrowOld(t) \/ GrowMake(t) \/ GrowCopy(t) \/ GrowReturn(t)
    \/ UnwrapCopy(t) \/ UnwrapReturn(t)
    \/ ErrorSwitch(t) \/ ErrorElem(t) \/ ErrorGet(t) \/ ErrorReturn(t)
    \/ WriteSingleLineElem(t) \/ WriteSingleLineReturn(t)
    \/ WriteMultiLineElem(t) \/ WriteMultiLineReturn(t)
    \/ FormatBody(t) \/ FormatVerboseElem(t) \/ FormatVerboseEnd(t) \/ FormatReturn(t)
    \/ Panic(t)

\* The calls of the runs explored: <<receiver, argument>>.
AddMenu == {<<"b1", NilErr>>, <<"b1", "a">>, <<"b1", "b2">>, <<"b2", "d">>}
GrowMenu == {MaxGrow - 1, MaxGrow}

Call(t) ==
    \/ \E m \in AddMenu : AddCall(t, m[1], m[2])
    \/ ClearCall(t, "b1")
    \/ ErrCall(t, "b1")
    \/ \E n \in GrowMenu : GrowCall(t, "b1", n)
    \/ UnwrapCall(t, "b1")
    \/ \E i \in 1..unwrapped[t].len : CallerOverwrite(t, i)
    \/ CallerAppend(t)
    \/ ErrorCall(t, "b1")
    \/ \E verb \in Verbs : FormatCall(t, "b1", verb)
    \/ \E e \in WarningMenu : NewBufferFromWarningCall(t, e)

Next == \E t \in Threads : (nops < MaxOps /\ Call(t)) \/ Step(t)

Spec == Init /\ [][Next]_vars

(***************************************************************************)
(* The K x M scenario: every goroutine adds its own AddsPerThread distinct *)
(* errors to the one shared buffer b1, which starts empty.                 *)
(***************************************************************************)
\* How many of its own errors goroutine t has added so far.
OwnAdded(t) ==
    Cardinality({i \in 1..Len(logical["b1"]) :
                    \E k \in 1..Len(OwnLeaves(t)) : logical["b1"][i] = OwnLeaves(t)[k]})

AddOwn(t) ==
    /\ Idle(t)
    /\ OwnAdded(t) < AddsPerThread
    /\ AddCall(t, "b1", OwnLeaves(t)[OwnAdded(t) + 1])

InitAdd == InitWith("New", "New")

NextAdd == \E t \in Threads : AddOwn(t) \/ AddRead(t) \/ AddWrite(t)

SpecAdd == InitAdd /\ [][NextAdd]_vars

(***************************************************************************)
(* Nested buffers: a buffer is an error, so Add stores any buffer in any   *)
(* buffer, itself included.  Calls on b1, which may hold itself.           *)
(***************************************************************************)
\* The innermost frame of t is at a call that pushes a frame.
WouldCall(t) ==
    /\ ~Idle(t)
    /\ LET f == Top(t)
       IN \/ /\ \/ f.op = "Error" /\ f.pc \in {"one", "size"}
                \/ f.op \in {"writeSingleLine", "writeMultiLine"} /\ f.pc = "loop"
             /\ f.i <= Hdr(f).len
             /\ heap[Hdr(f).ptr][f.i] \in Buffers
          \/ f.op = "Error" /\ f.pc = "get"
          \/ f.op = "Format" /\ f.pc = "body" /\ f.e # "+v"
          \/ /\ f.op = "Format" /\ f.pc = "verbose"
             /\ f.i <= f.s.len
             /\ heap[f.s.ptr][f.i] \in Buffers

\* The goroutine's stack is full and it calls once more: the runtime ends
\* the process with "fatal error: stack overflow"; no call returns.
Overflow(t) ==
    /\ Running
    /\ Depth(t) = MaxDepth
    /\ WouldCall(t)
    /\ status' = "overflow"
    /\ UNCHANGED <<heap, errors, writer, readers, pool, stack, unwrapped, nops,
                   seed, logical, cleared>>

NestedMenu == {"a", "b1"}

CallNested(t) ==
    \/ \E e \in NestedMenu : AddCall(t, "b1", e)
    \/ ErrorCall(t, "b1")
    \/ FormatCall(t, "b1", "v")

\* A step that fits on the stack.
Fits(t) == Depth(t) < MaxDepth \/ ~WouldCall(t)

StepNested(t) ==
    \/ LockWait(t)
    \/ Fits(t) /\ RLock(t)
    \/ AddRead(t)
    \/ AddWrite(t)
    \/ Fits(t) /\ ErrorSwitch(t)
    \/ Fits(t) /\ ErrorElem(t)
    \/ Fits(t) /\ ErrorGet(t)
    \/ Fits(t) /\ ErrorReturn(t)
    \/ Fits(t) /\ WriteSingleLineElem(t)
    \/ Fits(t) /\ WriteSingleLineReturn(t)
    \/ Fits(t) /\ WriteMultiLineElem(t)
    \/ Fits(t) /\ WriteMultiLineReturn(t)
    \/ Fits(t) /\ FormatBody(t)
    \/ Fits(t) /\ FormatReturn(t)
    \/ Overflow(t)

InitNested == InitWith("New", "New")

NextNested == \E t \in Threads : (nops < MaxOps /\ CallNested(t)) \/ StepNested(t)

SpecNested == InitNested /\ [][NextNested]_vars

\* Every goroutine that can take a step eventually takes one.
FairNested == SpecNested /\ \A t \in Threads : WF_vars(StepNested(t))

(***************************************************************************)
(* Properties                                                              *)
(***************************************************************************)
AllIdle == \A t \in Threads : Idle(t)

\* The frames of goroutine t.
Frames(t) == {stack[t][k] : k \in 1..Len(stack[t])}

\* C1: for a buffer made by New() and never cleared, Err() returns nil
\* exactly when no non-nil error was added (N = 0), and the buffer itself
\* otherwise.  Checked where Err's return value is computed, under its lock.
ErrNilIffNothingAdded ==
    \A t \in Threads :
        (At(t, "Err", "unlock") /\ seed[Top(t).b] = "New" /\ Top(t).b \notin cleared)
        => /\ Top(t).e = NilErr <=> Len(logical[Top(t).b]) = 0
           /\ Top(t).e # NilErr => Top(t).e = Top(t).b

\* C1 witness: Err() returns the buffer after two Adds on a New() buffer.
ErrAfterTwoAdds ==
    \E t \in Threads :
        /\ At(t, "Err", "unlock") /\ seed[Top(t).b] = "New" /\ Top(t).b \notin cleared
        /\ Len(logical[Top(t).b]) = 2
        /\ Top(t).e = Top(t).b

\* C2: in the K x M scenario, whenever all Add calls made so far have
\* returned, the buffer holds exactly one entry per call: as many entries as
\* calls, every added error once; in the end exactly K x M entries.
NoLostAdd ==
    AllIdle =>
        /\ Len(Stored("b1")) = nops
        /\ \A t \in Threads : \A k \in 1..AddsPerThread :
              Cardinality({i \in 1..Len(Stored("b1")) : Stored("b1")[i] = OwnLeaves(t)[k]})
                = IF k <= OwnAdded(t) THEN 1 ELSE 0
        /\ (\A t \in Threads : ~ENABLED AddOwn(t))
              => Len(Stored("b1")) = Cardinality(Threads) * AddsPerThread

\* C2 witness: all K x M calls have returned and all K x M errors are stored.
AllAddsDone ==
    /\ AllIdle
    /\ nops = Cardinality(Threads) * AddsPerThread
    /\ Len(Stored("b1")) = Cardinality(Threads) * AddsPerThread

\* C3 (as claimed): no buffer ever stores a nil element.
NoNilStored ==
    \A b \in Buffers : \A i \in 1..Len(Stored(b)) : Stored(b)[i] # NilErr

\* C4 (as claimed): right after construction NewFromError(e) holds exactly e
\* when e is non-nil and nothing when e is nil; then Err() returns nil and
\* Unwrap() is empty.
NewFromErrorNilSafe ==
    /\ nops = 0 =>
         \A b \in Buffers :
            /\ seed[b] = NilErr => Stored(b) = <<>>
            /\ seed[b] \notin {"New", NilErr} => Stored(b) = <<seed[b]>>
    /\ nops = 1 =>
         \A t \in Threads :
            /\ (At(t, "Err", "unlock") /\ seed[Top(t).b] = NilErr) => Top(t).e = NilErr
            /\ (At(t, "Unwrap", "runlock") /\ seed[Top(t).b] = NilErr) => Top(t).s.len = 0

\* A step of goroutine t inside a call Add(nil): the call itself or its return.
AddNilStep(t) ==
    /\ stack'[t] # stack[t]
    /\ \/ ~Idle(t) /\ Top(t).op = "Add" /\ Top(t).e = NilErr
       \/ stack'[t] # <<>> /\ stack'[t][1].op = "Add" /\ stack'[t][1].e = NilErr

\* C5: a call Add(nil) changes no buffer's stored sequence, takes no lock and
\* does not panic, whatever the state it is made in.
AddNilIsNoop ==
    [][\A t \in Threads : AddNilStep(t) =>
          /\ \A b \in Buffers : Elems(heap', errors'[b]) = Stored(b)
          /\ errors' = errors /\ writer' = writer /\ readers' = readers
          /\ status' = status]_vars

\* C5 witness: goroutine t is inside Add(nil) on a non-empty buffer.
InsideAddNil ==
    \E t \in Threads :
        At(t, "Add", "ret") /\ Top(t).e = NilErr /\ Len(Stored(Top(t).b)) >= 1

\* C6 (as claimed): for a buffer made by New() and never cleared, the slice
\* Unwrap() returns is exactly the non-nil errors added so far, in call order.
UnwrapInInsertionOrder ==
    \A t \in Threads :
        (At(t, "Unwrap", "runlock") /\ seed[Top(t).b] = "New" /\ Top(t).b \notin cleared)
        => Elems(heap, Top(t).s) = logical[Top(t).b]

\* A step of the caller of Unwrap(): a write to, or an append onto, the slice
\* it was given.  Only these steps count a call without pushing a frame.
CallerStep == nops' = nops + 1 /\ stack' = stack

\* C7: the slice Unwrap() returned shares no storage with the buffer: the
\* caller's writes and appends change no buffer's stored sequence (hence no
\* later Unwrap() result), and nothing but writes of the goroutine that holds
\* the slice changes the elements of the slice.
UnwrapIsIndependentCopy ==
    [][/\ CallerStep => \A b \in Buffers : Elems(heap', errors'[b]) = Stored(b)
       /\ \A t \in Threads :
            (unwrapped'[t] = unwrapped[t]
               /\ ~(\E i \in 1..unwrapped[t].len : CallerOverwrite(t, i)))
            => Elems(heap', unwrapped[t]) = Elems(heap, unwrapped[t])]_vars

\* C7 witness: the caller overwrote the first element of the slice it got,
\* and the buffer still stores its own first element.
CallerChangedItsCopy ==
    \E t \in Threads :
        /\ unwrapped[t].len >= 1
        /\ Elems(heap, unwrapped[t])[1] = CallerValue
        /\ Len(Stored("b1")) >= 1
        /\ Stored("b1")[1] # CallerValue

\* Goroutine t is at a write of b's stored sequence (the slice header or an
\* element of its backing array).
Writing(t, b) ==
    /\ ~Idle(t)
    /\ Top(t).b = b
    /\ \/ Top(t).op = "Add" /\ Top(t).pc \in {"body", "write"}
       \/ Top(t).op = "Clear" /\ Top(t).pc = "body"
       \/ Top(t).op = "Grow" /\ Top(t).pc \in {"make", "copy"}

\* Goroutine t is inside a read of b's stored sequence.
Reading(t, b) ==
    \E f \in Frames(t) :
        /\ f.b = b
        /\ f.op \in {"Error", "Format", "Unwrap", "Err", "writeSingleLine", "writeMultiLine"}
        /\ f.pc \notin {"rlock", "wait"}

\* C8 (as claimed): every write of a buffer's sequence (Add, Clear, Grow)
\* happens while the writer holds the buffer's lock exclusively, and no other
\* goroutine is then reading that sequence (Error, Format, Unwrap, Err, or
\* the multi-line rendering of a nested buffer).
NoReaderWithWriter ==
    \A t \in Threads : \A b \in Buffers :
        Writing(t, b) =>
            /\ writer[b] = t
            /\ NoReaders(b)
            /\ \A u \in Threads \ {t} : ~Reading(u, b)

\* The strings ss joined by sep.
RECURSIVE JoinStrings(_, _)
JoinStrings(ss, sep) ==
    IF ss = <<>> THEN <<>>
    ELSE IF Len(ss) = 1 THEN ss[1]
    ELSE ss[1] \o sep \o JoinStrings(Tail(ss), sep)

\* The single-line text of a sequence of leaf errors.
LeafLine(es) == JoinStrings([i \in 1..Len(es) |-> LeafString(es[i])], singleLineSep)

\* Buffer n holds what it was constructed with: nothing was added or cleared.
Unmodified(n) ==
    /\ n \notin cleared
    /\ Len(logical[n]) = IF seed[n] = "New" THEN 0 ELSE 1
    /\ Stored(n) = logical[n]

\* The string of element v: a leaf's text, a nested buffer's single line.
StringOf(v) == IF v \in Buffers THEN LeafLine(Stored(v)) ELSE LeafString(v)

\* Every element of b has a string that is known from the state: it is a
\* leaf, or a nested buffer of leaves that never changed.
Renderable(b) ==
    \A i \in 1..Len(Stored(b)) :
        \/ Stored(b)[i] \in Leaves
        \/ /\ Stored(b)[i] \in Buffers
           /\ Unmodified(Stored(b)[i])
           /\ \A j \in 1..Len(Stored(Stored(b)[i])) : Stored(Stored(b)[i])[j] \in Leaves

\* Frame f is an Error() call that has its result in f.out.
ErrorDone(f) == f.op = "Error" /\ f.pc \in {"runlock", "put"}

\* C9 (as claimed): a reader sees the whole stored sequence as it is between
\* two writes, also while Grow reallocates: Unwrap() returns it, and Error()
\* of a buffer of leaf errors renders it.
ReadersSeeSnapshot ==
    \A t \in Threads :
        /\ At(t, "Unwrap", "runlock") => Elems(heap, Top(t).s) = logical[Top(t).b]
        /\ \A f \in Frames(t) :
              (ErrorDone(f) /\ \A i \in 1..Len(logical[f.b]) : logical[f.b][i] \in Leaves)
              => f.out = LeafLine(logical[f.b])

\* C10: Error() of a buffer holding e1..eN returns the strings of e1..eN in
\* stored order joined by "; ": the empty string for N = 0, the string of e1
\* alone for N = 1, no separator before the first or after the last.
ErrorIsSingleLine ==
    \A t \in Threads : \A f \in Frames(t) :
        (ErrorDone(f) /\ Renderable(f.b))
        => f.out = JoinStrings([i \in 1..Len(Stored(f.b)) |-> StringOf(Stored(f.b)[i])],
                               singleLineSep)

\* C10 witness: Error() of a buffer holding a nested buffer (of d) and the
\* leaf a has produced "d; a".
ErrorOfTwo ==
    \E t \in Threads : \E f \in Frames(t) :
        /\ ErrorDone(f)
        /\ Stored(f.b) = <<"b2", "a">>
        /\ Renderable(f.b)
        /\ f.out = <<"d">> \o singleLineSep \o <<"a">>

\* A Clear() of b has returned, and none is in progress.
ClearDone(b) ==
    /\ b \in cleared
    /\ \A u \in Threads : \A g \in Frames(u) : ~(g.op = "Clear" /\ g.b = b)

\* C11: Clear() empties the buffer whatever it held.  Once b was cleared
\* and nothing was added since, Err() returns nil and Unwrap() is empty; and
\* what Unwrap() reports after a Clear holds no error stored before it: it
\* has one entry per Add since the Clear, and every error in it is the one
\* that Add put there.
ClearEmpties ==
    \A t \in Threads :
        /\ (At(t, "Err", "unlock") /\ ClearDone(Top(t).b) /\ logical[Top(t).b] = <<>>)
           => Top(t).e = NilErr
        /\ (At(t, "Unwrap", "runlock") /\ ClearDone(Top(t).b) /\ logical[Top(t).b] = <<>>)
           => Top(t).s.len = 0
        /\ (At(t, "Unwrap", "runlock") /\ ClearDone(Top(t).b))
           => /\ Top(t).s.len = Len(logical[Top(t).b])
              /\ \A i \in 1..Top(t).s.len :
                    Elems(heap, Top(t).s)[i] \in {logical[Top(t).b][i], NilErr}

\* C11 witness: b1 was built holding b2, cleared, and a was added: Unwrap()
\* reports a alone.
UnwrapAfterClear ==
    \E t \in Threads :
        /\ At(t, "Unwrap", "runlock") /\ ClearDone(Top(t).b)
        /\ seed[Top(t).b] = "b2"
        /\ Elems(heap, Top(t).s) = <<"a">>

\* No goroutine is inside a call that writes b's sequence.
NoWriteInProgress(b) ==
    \A t \in Threads : \A f \in Frames(t) :
        ~(f.b = b /\ f.op \in {"Add", "Clear", "Grow"})

\* C12 (as claimed): Grow never changes the stored elements, their order or
\* their count: whenever no write is in progress, a buffer stores exactly
\* what the Add and Clear calls put there, Grow calls or not.
GrowKeepsContents ==
    \A b \in Buffers : NoWriteInProgress(b) => Stored(b) = logical[b]

\* C13 (as claimed): no call of Add, Grow, Clear, Unwrap, Err, Error or
\* Format panics, in any reachable state.
NoMethodPanics == status # "panic"

\* C14 (as claimed): under fair scheduling every call eventually returns,
\* also on a buffer that holds buffers: no deadlock, no unbounded recursion.
EveryCallReturns == \A t \in Threads : (~Idle(t)) ~> Idle(t)

\* The indentation of depth n.
Indent(n) == [k \in 1..n |-> " "]

\* The multi-line text of the entries es at depth n: one line per leaf, a
\* nested buffer's own lines one level deeper.
RECURSIVE MultiLineText(_, _)
MultiLineText(es, n) ==
    JoinStrings([i \in 1..Len(es) |->
                    IF es[i] \in Buffers
                    THEN MultiLineText(Stored(es[i]), n + 1)
                    ELSE Indent(n) \o LeafString(es[i])],
                multilineSep)

\* Frame f is a Format call with the given verb that has written its text.
FormatDone(f, verb) == f.op = "Format" /\ f.e = verb /\ f.pc = "runlock"

\* C15: Format with verb v and no + flag writes the entries in stored order,
\* one newline between two entries, each leaf after as many spaces as its
\* depth (0 at the top), a nested buffer's entries at depth + 1.
FormatIsMultiLine ==
    \A t \in Threads : \A f \in Frames(t) :
        (FormatDone(f, "v") /\ Renderable(f.b))
        => f.out = MultiLineText(Stored(f.b), 0)

\* C15 witness: the buffer holds a nested buffer (of d) and the leaf a, and
\* Format has written " d", a newline, "a".
MultiLineOfNested ==
    \E t \in Threads : \E f \in Frames(t) :
        /\ FormatDone(f, "v")
        /\ Stored(f.b) = <<"b2", "a">>
        /\ Renderable(f.b)
        /\ f.out = <<" ", "d">> \o multilineSep \o <<"a">>

\* Goroutine t is inside NewBufferFromWarning.
InWarning(stk, t) == stk[t] # <<>> /\ stk[t][1].op = "NewBufferFromWarning"

\* C16: NewBufferFromWarning(e) returns no buffer, for nil and non-nil e:
\* the call ends the process with the panic that tells the warnings buffer
\* is gone, it never returns, and it changes no buffer.
WarningAlwaysPanics ==
    [][\A t \in Threads :
          /\ (InWarning(stack', t) /\ ~InWarning(stack, t))
             => /\ status' = WarningPanic
                /\ errors' = errors /\ heap' = heap /\ unwrapped' = unwrapped
          /\ InWarning(stack, t) => (stack'[t] = stack[t] /\ status' = WarningPanic)]_vars

\* C16 witness: NewBufferFromWarning was called with a non-nil error while
\* a buffer held an error; the process has panicked and the buffer holds it.
WarningPanicked ==
    \E t \in Threads :
        /\ InWarning(stack, t) /\ stack[t][1].e # NilErr
        /\ status = WarningPanic
        /\ Len(Stored("b1")) >= 1

\* A step of goroutine t inside a call of Err(): the call, a step, the return.
ErrStep(t) ==
    /\ stack'[t] # stack[t]
    /\ \/ ~Idle(t) /\ Top(t).op = "Err"
       \/ stack'[t] # <<>> /\ stack'[t][1].op = "Err"

\* C17: Err() is a pure read.  No step of it changes a stored sequence; its
\* result is nil for an empty buffer and else the buffer itself (the same
\* reference), so it depends on the stored sequence alone: repeated calls
\* with no mutation in between return the same.
ErrIsPureRead ==
    [][\A t \in Threads :
          /\ ErrStep(t)
             => /\ errors' = errors /\ logical' = logical
                /\ \A b \in Buffers : Elems(heap', errors'[b]) = Stored(b)
          /\ At(t, "Err", "unlock")
             => Top(t).e = IF Len(Stored(Top(t).b)) = 0 THEN NilErr ELSE Top(t).b]_vars

\* C17 witness: the second call made on the buffer built holding b2, which
\* nothing has changed, is an Err() and returns the buffer.
ErrOnUnchangedBuffer ==
    \E t \in Threads :
        /\ At(t, "Err", "unlock")
        /\ nops >= 2
        /\ seed[Top(t).b] = "b2" /\ Unmodified(Top(t).b)
        /\ Top(t).e = Top(t).b

\* C18 (as claimed): when a call Grow(n) returns, the capacity of the
\* buffer's storage is at least n, whatever ran concurrently (no Clear can:
\* the call holds the read lock until it returns).
GrowEnsuresCapacity ==
    \A t \in Threads :
        At(t, "Grow", "runlock") => errors[Top(t).b].cap >= Top(t).n

\* Goroutine t is at a call of Error() on a stored error that is not a
\* buffer: code the package does not know.
AtElementCall(t) ==
    /\ ~Idle(t)
    /\ LET f == Top(t)
       IN \/ /\ \/ f.op = "Error" /\ f.pc \in {"one", "size"}
                \/ f.op \in {"writeSingleLine", "writeMultiLine"} /\ f.pc = "loop"
             /\ f.i <= Hdr(f).len
             /\ heap[Hdr(f).ptr][f.i] \in Leaves
          \/ /\ f.op = "Format" /\ f.pc = "verbose"
             /\ f.i <= f.s.len
             /\ heap[f.s.ptr][f.i] \in Leaves

\* Goroutine t holds some buffer's lock, shared or exclusive.
HoldsLock(t) ==
    \E b \in Buffers :
        \/ readers[b][t] > 0
        \/ writer[b] = t /\ ~Idle(t) /\ Top(t).pc # "wait"

\* C19 (as claimed): no goroutine holds a buffer's lock while it calls the
\* Error() method of a stored error.
NoLockAcrossErrorCall ==
    \A t \in Threads : AtElementCall(t) => ~HoldsLock(t)

\* The single-line text of what b stores.
SingleLineText(b) ==
    JoinStrings([i \in 1..Len(Stored(b)) |-> StringOf(Stored(b)[i])], singleLineSep)

\* C20: the text Format writes for a verb other than v is the string
\* Error() returns: the single-line text, equal to the result of an Error()
\* call on the same buffer in the same state; verb v alone selects the
\* multi-line text, and v with the + flag the verbose dump.
FormatAgreesWithError ==
    \A t \in Threads : \A f \in Frames(t) :
        /\ (FormatDone(f, "s") /\ Renderable(f.b))
           => /\ f.out = SingleLineText(f.b)
              /\ \A u \in Threads : \A g \in Frames(u) :
                    (ErrorDone(g) /\ g.b = f.b) => g.out = f.out
        /\ (FormatDone(f, "v") /\ Renderable(f.b))
           => f.out = MultiLineText(Stored(f.b), 0)
        /\ FormatDone(f, "+v")
           => (Len(f.out) >= 1 /\ f.out[1] = "BufferedError{errors:")

\* C20 witness: Format with verb s and Error() have both rendered the same
\* buffer of two entries, a nested buffer among them, to the same text.
FormatAndErrorAgree ==
    \E t \in Threads : \E u \in Threads : \E f \in Frames(t) : \E g \in Frames(u) :
        /\ FormatDone(f, "s") /\ ErrorDone(g) /\ g.b = f.b
        /\ Renderable(f.b)
        /\ Stored(f.b) = <<"b2", "a">>
        /\ f.out = g.out
        /\ f.out = <<"d">> \o singleLineSep \o <<"a">>

====
